---- MODULE Spec2Model ----
(***************************************************************************)
(* d20roll: a single-window dice roller built on Relm/GTK+.                *)
(*                                                                         *)
(* The model follows src/main.rs (Win::update, the signal connections of   *)
(* Win::view) and src/roll.rs (lazy_roll).  The widget toolkit, the Relm   *)
(* event stream and the rfyl evaluator are external; they appear only at   *)
(* the calls the source makes on them.                                     *)
(***************************************************************************)
EXTENDS Integers, Sequences, FiniteSets, TLC

VARIABLES
    textentry_content,  \* Model.textentry_content
    rolls,              \* Model.rolls : Vec<RollOutcome>
    inputText,          \* the text shown by Win.input (gtk::Entry)
    rolls_store,        \* the rows of Win.rolls_store (gtk::ListStore), row 0 first
    stream,             \* the Relm event stream: messages emitted, not yet handled
    tasks,              \* the futures handed to connect_exec_ignore_err, by spawn order
    running,            \* TRUE until gtk::main_quit()
    cmds,               \* the view commands issued by the step just taken
    last,               \* the kind of the step just taken
    finished,           \* ghost: number of FinishRoll messages handled
    completed           \* ghost: ids of the tasks whose future resolved Ok, in that order

vars == <<textentry_content, rolls, inputText, rolls_store, stream, tasks,
          running, cmds, last, finished, completed>>

-----------------------------------------------------------------------------
(* Bounds of the model. *)

\* user gestures are accepted while fewer than MaxQueue messages are pending
MaxQueue == 2
\* at most MaxTasks rolls are submitted in one behaviour
MaxTasks == 2

-----------------------------------------------------------------------------
(* The evaluator, rfyl::roll, as lazy_roll consumes it. *)

\* the texts the user can leave in the entry
Texts == {"", "1d2+1", "zz"}

\* rfyl::roll(s): the possible Ok values, each a formula string (infix) and a
\* result; the empty set when rfyl::roll(s) is Err
rfyl_roll(s) ==
    IF s = "1d2+1"
    THEN {[formula |-> "1d2 + 1", result |-> 2],
          [formula |-> "1d2 + 1", result |-> 3]}
    ELSE {}

\* what the future of lazy_roll(s) resolves to: "ok" with a RollOutcome, or "err"
lazy_roll_err_as_ok(s) ==
    IF rfyl_roll(s) = {}
    THEN {[kind |-> "ok", descriptor |-> "", outcome |-> 0]}
    ELSE {[kind |-> "ok", descriptor |-> v.formula, outcome |-> v.result] :
             v \in rfyl_roll(s)}

lazy_roll(s) ==
    IF rfyl_roll(s) = {}
    THEN {[kind |-> "err", descriptor |-> "", outcome |-> 0]}
    ELSE {[kind |-> "ok", descriptor |-> v.formula, outcome |-> v.result] :
             v \in rfyl_roll(s)}

-----------------------------------------------------------------------------
(* Messages (enum Message) and RollOutcome values.                          *)
(* A RollOutcome carries, as ghost field, the id of the task that made it.  *)

NoOutcome == [descriptor |-> "", outcome |-> 0, task |-> 0]

ChangeInput == [tag |-> "ChangeInput", outcome |-> NoOutcome]
StartRoll   == [tag |-> "StartRoll",   outcome |-> NoOutcome]
Quit        == [tag |-> "Quit",        outcome |-> NoOutcome]
FinishRoll(o) == [tag |-> "FinishRoll", outcome |-> o]

\* the view commands
SetTextCmd(t)     == [cmd |-> "set_text", text |-> t, rows |-> <<>>]
ReplaceRowsCmd(r) == [cmd |-> "replace_rows", text |-> "", rows |-> r]

-----------------------------------------------------------------------------
(* The widgets, at the calls Win::update and Win::view make on them. *)

\* connect_changed: the entry emits ChangeInput when its text really changes
EmitChanged_always(q, old, new) == Append(q, ChangeInput)

EmitChanged(q, old, new) == IF old # new THEN Append(q, ChangeInput) ELSE q

\* format!("{}", roll.outcome) and the two columns of a row
Row(roll) == <<roll.descriptor, ToString(roll.outcome)>>

\* rolls_store.clear()
clear_keep(store) == store

clear(store) == <<>>

\* rolls_store.prepend() followed by rolls_store.set(..)
prepend_at_end(store, row) == Append(store, row)

prepend(store, row) == <<row>> \o store

\* the loop over self.model.rolls.iter()
RECURSIVE PrependAll(_, _)
PrependAll(store, rs) ==
    IF rs = <<>> THEN store
    ELSE PrependAll(prepend(store, Row(Head(rs))), Tail(rs))

\* the output refresh of Win::update
RefreshStore(store, rs) == PrependAll(clear(store), rs)

\* self.model.rolls.push(outcome)
push_front(v, x) == <<x>> \o v

push_replace(v, x) == IF v = <<>> THEN <<x>> ELSE <<x>> \o Tail(v)

push(v, x) == Append(v, x)

-----------------------------------------------------------------------------
Init ==
    /\ textentry_content = ""
    /\ rolls = <<>>
    /\ inputText = ""
    /\ rolls_store = <<>>
    /\ stream = <<>>
    /\ tasks = <<>>
    /\ running = TRUE
    /\ cmds = <<>>
    /\ last = "Init"
    /\ finished = 0
    /\ completed = <<>>

\* the window exists: it is shown and no delete event has closed it
WindowOpen == running /\ \A i \in DOMAIN stream : stream[i].tag # "Quit"

PendingStartRolls == Cardinality({i \in DOMAIN stream : stream[i].tag = "StartRoll"})

-----------------------------------------------------------------------------
(* User gestures (the signal connections of Win::view). *)

\* the user edits the entry: its text changes and "changed" fires
TypeText(t) ==
    /\ WindowOpen
    /\ Len(stream) < MaxQueue
    /\ t # inputText
    /\ inputText' = t
    /\ stream' = EmitChanged(stream, inputText, t)
    /\ cmds' = <<>>
    /\ last' = "TypeText"
    /\ UNCHANGED <<textentry_content, rolls, rolls_store, tasks, running,
                   finished, completed>>

\* a click on the Roll button, or "activate" on the entry
SubmitGesture ==
    /\ WindowOpen
    /\ Len(stream) < MaxQueue
    /\ Len(tasks) + PendingStartRolls < MaxTasks
    /\ stream' = Append(stream, StartRoll)
    /\ cmds' = <<>>
    /\ last' = "SubmitGesture"
    /\ UNCHANGED <<textentry_content, rolls, inputText, rolls_store, tasks,
                   running, finished, completed>>

\* the delete event of the window
CloseGesture ==
    /\ WindowOpen
    /\ stream' = Append(stream, Quit)
    /\ cmds' = <<>>
    /\ last' = "CloseGesture"
    /\ UNCHANGED <<textentry_content, rolls, inputText, rolls_store, tasks,
                   running, finished, completed>>

-----------------------------------------------------------------------------
(* Win::update, one action per arm of the match, each with the refresh     *)
(* that follows the match.                                                 *)

Handling(tag) == running /\ stream # <<>> /\ Head(stream).tag = tag

\* gtk::main_quit()
main_quit_ignored == TRUE

main_quit == FALSE

UpdateQuit ==
    /\ Handling("Quit")
    /\ running' = main_quit
    /\ stream' = Tail(stream)
    /\ cmds' = <<>>
    /\ last' = "Quit"
    /\ UNCHANGED <<textentry_content, rolls, inputText, rolls_store, tasks,
                   finished, completed>>

\* self.input.get_text().unwrap().clone()
get_text_cleared(input) == ""

get_text(input) == input

\* self.input.set_text(text): the text the entry shows afterwards
set_text(input, text) == text

\* the ChangeInput arm and the input refresh, on the model's text and the entry
OnChangeInput_no_refresh(content, input) ==
    [content |-> get_text(input), input |-> input, cmds |-> <<>>]

OnChangeInput(content, input) ==
    LET c == get_text(input)
    IN  [content |-> c,
         input   |-> set_text(input, c),
         cmds    |-> <<SetTextCmd(c)>>]

UpdateChangeInput ==
    /\ Handling("ChangeInput")
    /\ LET r == OnChangeInput(textentry_content, inputText)
       IN  /\ textentry_content' = r.content
           /\ inputText' = r.input
           /\ cmds' = r.cmds
    /\ stream' = EmitChanged(Tail(stream), inputText, inputText')
    /\ last' = "ChangeInput"
    /\ UNCHANGED <<rolls, rolls_store, tasks, running, finished, completed>>

\* let spec = self.model.textentry_content.clone()
spec_after_clear == ""

spec == textentry_content

\* connect_exec_ignore_err(lazy_roll(spec), Message::FinishRoll)
spawn_if_valid(ts, s) ==
    IF rfyl_roll(s) = {} THEN ts ELSE Append(ts, [spec |-> s, state |-> "spawned"])

spawn(ts, s) == Append(ts, [spec |-> s, state |-> "spawned"])

\* self.model.textentry_content = String::new()
String_new_keep == textentry_content

String_new == ""

UpdateStartRoll_sync ==
    /\ Handling("StartRoll")
    /\ \E r \in lazy_roll(spec) :
          /\ tasks' = Append(tasks, [spec |-> spec, state |-> r.kind])
          /\ rolls' = IF r.kind = "ok"
                      THEN push(rolls, [descriptor |-> r.descriptor,
                                        outcome |-> r.outcome,
                                        task |-> Len(tasks) + 1])
                      ELSE rolls
          /\ completed' = IF r.kind = "ok"
                          THEN Append(completed, Len(tasks) + 1) ELSE completed
          /\ finished' = IF r.kind = "ok" THEN finished + 1 ELSE finished
    /\ rolls_store' = RefreshStore(rolls_store, rolls')
    /\ textentry_content' = String_new
    /\ inputText' = set_text(inputText, textentry_content')
    /\ stream' = EmitChanged(Tail(stream), inputText, inputText')
    /\ cmds' = <<SetTextCmd(textentry_content')>>
    /\ last' = "StartRoll"
    /\ UNCHANGED running

UpdateStartRoll ==
    /\ Handling("StartRoll")
    /\ tasks' = spawn(tasks, spec)
    /\ textentry_content' = String_new
    /\ inputText' = set_text(inputText, textentry_content')
    /\ stream' = EmitChanged(Tail(stream), inputText, inputText')
    /\ cmds' = <<SetTextCmd(textentry_content')>>
    /\ last' = "StartRoll"
    /\ UNCHANGED <<rolls, rolls_store, running, finished, completed>>

UpdateFinishRoll_refresh_all ==
    /\ Handling("FinishRoll")
    /\ rolls' = push(rolls, Head(stream).outcome)
    /\ rolls_store' = RefreshStore(rolls_store, rolls')
    /\ inputText' = set_text(inputText, textentry_content)
    /\ stream' = EmitChanged(Tail(stream), inputText, inputText')
    /\ cmds' = <<SetTextCmd(textentry_content), ReplaceRowsCmd(rolls_store')>>
    /\ last' = "FinishRoll"
    /\ finished' = finished + 1
    /\ UNCHANGED <<textentry_content, tasks, running, completed>>

UpdateFinishRoll ==
    /\ Handling("FinishRoll")
    /\ rolls' = push(rolls, Head(stream).outcome)
    /\ rolls_store' = RefreshStore(rolls_store, rolls')
    /\ stream' = Tail(stream)
    /\ cmds' = <<ReplaceRowsCmd(rolls_store')>>
    /\ last' = "FinishRoll"
    /\ finished' = finished + 1
    /\ UNCHANGED <<textentry_content, inputText, tasks, running, completed>>

-----------------------------------------------------------------------------
(* The future of lazy_roll resolves (roll.rs), and connect_exec_ignore_err *)
(* emits FinishRoll for Ok and drops Err.                                  *)

\* the message connect_exec_ignore_err emits for a resolved future
Resolved_twice(q, t, r) ==
    IF r.kind = "ok"
    THEN q \o << FinishRoll([descriptor |-> r.descriptor,
                             outcome |-> r.outcome, task |-> t]),
                 FinishRoll([descriptor |-> r.descriptor,
                             outcome |-> r.outcome, task |-> t]) >>
    ELSE q

Resolved_dropped(q, t, r) == q

Resolved_front(q, t, r) ==
    IF r.kind = "ok"
    THEN <<FinishRoll([descriptor |-> r.descriptor,
                       outcome |-> r.outcome, task |-> t])>> \o q
    ELSE q

Resolved(q, t, r) ==
    IF r.kind = "ok"
    THEN Append(q, FinishRoll([descriptor |-> r.descriptor,
                               outcome |-> r.outcome, task |-> t]))
    ELSE q

RunTask_writes_model(t) ==
    /\ running
    /\ t \in DOMAIN tasks
    /\ tasks[t].state = "spawned"
    /\ \E r \in lazy_roll(tasks[t].spec) :
          /\ tasks' = [tasks EXCEPT ![t].state = r.kind]
          /\ rolls' = IF r.kind = "ok"
                      THEN push(rolls, [descriptor |-> r.descriptor,
                                        outcome |-> r.outcome, task |-> t])
                      ELSE rolls
          /\ completed' = IF r.kind = "ok" THEN Append(completed, t) ELSE completed
          /\ finished' = IF r.kind = "ok" THEN finished + 1 ELSE finished
          /\ last' = IF r.kind = "ok" THEN "TaskOk" ELSE "TaskErr"
    /\ rolls_store' = RefreshStore(rolls_store, rolls')
    /\ cmds' = <<>>
    /\ UNCHANGED <<textentry_content, inputText, stream, running>>

RunTask_err_exits(t) ==
    /\ running
    /\ t \in DOMAIN tasks
    /\ tasks[t].state = "spawned"
    /\ \E r \in lazy_roll(tasks[t].spec) :
          /\ tasks' = [tasks EXCEPT ![t].state = r.kind]
          /\ stream' = Resolved(stream, t, r)
          /\ completed' = IF r.kind = "ok" THEN Append(completed, t) ELSE completed
          /\ last' = IF r.kind = "ok" THEN "TaskOk" ELSE "TaskErr"
          /\ running' = (r.kind = "ok")
    /\ cmds' = <<>>
    /\ UNCHANGED <<textentry_content, rolls, inputText, rolls_store, finished>>

RunTask(t) ==
    /\ running
    /\ t \in DOMAIN tasks
    /\ tasks[t].state = "spawned"
    /\ \E r \in lazy_roll(tasks[t].spec) :
          /\ tasks' = [tasks EXCEPT ![t].state = r.kind]
          /\ stream' = Resolved(stream, t, r)
          /\ completed' = IF r.kind = "ok" THEN Append(completed, t) ELSE completed
          /\ last' = IF r.kind = "ok" THEN "TaskOk" ELSE "TaskErr"
    /\ cmds' = <<>>
    /\ UNCHANGED <<textentry_content, rolls, inputText, rolls_store, running,
                   finished>>

-----------------------------------------------------------------------------
Update == UpdateQuit \/ UpdateChangeInput \/ UpdateStartRoll \/ UpdateFinishRoll

Next ==
    \/ \E t \in Texts : TypeText(t)
    \/ SubmitGesture
    \/ CloseGesture
    \/ UpdateQuit
    \/ UpdateChangeInput
    \/ UpdateStartRoll
    \/ UpdateFinishRoll
    \/ \E t \in 1..MaxTasks : RunTask(t)

Spec == Init /\ [][Next]_vars

\* the main loop handles a pending message, and the executor polls every
\* spawned future, as long as the program runs
FairSpec ==
    /\ Spec
    /\ WF_vars(Update)
    /\ \A t \in 1..MaxTasks : WF_vars(RunTask(t))

-----------------------------------------------------------------------------
(* Properties. *)

IsPrefix(a, b) == Len(a) <= Len(b) /\ SubSeq(b, 1, Len(a)) = a

\* the FinishRoll messages pending in the stream, in order
IsFinishRoll(m) == m.tag = "FinishRoll"
PendingFinishRolls == SelectSeq(stream, IsFinishRoll)

\* the task ids behind a sequence of RollOutcome values / of FinishRoll messages
OutcomeTasks(rs) == [i \in 1..Len(rs) |-> rs[i].task]
MessageTasks(ms) == [i \in 1..Len(ms) |-> ms[i].outcome.task]

\* the number of FinishRoll messages, pending or handled, that task t produced
EventsOf(t) ==
    Cardinality({i \in DOMAIN stream :
                    stream[i].tag = "FinishRoll" /\ stream[i].outcome.task = t})
    + Cardinality({i \in DOMAIN rolls : rolls[i].task = t})

\* C1: the history is append-only: every step leaves the previous history as
\* a prefix of the new one, and after N handled FinishRoll messages the
\* history holds exactly N entries.
C1_AppendOnly ==
    [][IsPrefix(rolls, rolls') /\ Len(rolls') = finished']_vars

C1_Witness ==
    /\ last = "FinishRoll"
    /\ finished = 2
    /\ Len(rolls) = 2

\* C2: the expression of the task spawned by a StartRoll step is the value
\* textentry_content had when the step began, and no later step (ChangeInput,
\* StartRoll, or any other) changes the expression of an existing task.
C2_CaptureBeforeClear ==
    [][ /\ \A t \in DOMAIN tasks :
              t \in DOMAIN tasks' /\ tasks'[t].spec = tasks[t].spec
        /\ last' = "StartRoll" =>
              /\ Len(tasks') = Len(tasks) + 1
              /\ tasks'[Len(tasks')].spec = textentry_content ]_vars

C2_Witness ==
    /\ last = "ChangeInput"
    /\ textentry_content = "zz"
    /\ \E t \in DOMAIN tasks :
          tasks[t].state = "spawned" /\ tasks[t].spec = "1d2+1"

\* C3: right after a StartRoll step textentry_content is empty, the entry has
\* been told to show the empty string, and it shows it.
C3_ClearedAfterStartRoll ==
    last = "StartRoll" =>
        /\ textentry_content = ""
        /\ cmds = <<SetTextCmd("")>>
        /\ inputText = ""

C3_Witness ==
    /\ last = "StartRoll"
    /\ tasks[Len(tasks)].spec = "zz"
    /\ Len(stream) > 0 /\ stream[Len(stream)].tag = "ChangeInput"

\* the step in which the future of task t resolves
Resolves(t) ==
    /\ t \in DOMAIN tasks /\ tasks[t].state = "spawned"
    /\ t \in DOMAIN tasks' /\ tasks'[t].state # "spawned"

\* C4: a task whose evaluator call fails never has a FinishRoll message of
\* its own, pending or handled, and the step in which it fails emits no
\* message, leaves the model and the widgets alone and issues no view command.
C4_SilentFailure ==
    [][ /\ \A t \in DOMAIN tasks' :
              rfyl_roll(tasks'[t].spec) = {} => EventsOf(t)' = 0
        /\ \A t \in DOMAIN tasks :
              Resolves(t) /\ rfyl_roll(tasks[t].spec) = {} =>
                 /\ tasks'[t].state = "err"
                 /\ stream' = stream
                 /\ cmds' = <<>>
                 /\ UNCHANGED <<textentry_content, rolls, inputText,
                                rolls_store, running>> ]_vars

C4_Witness ==
    /\ last = "TaskErr"
    /\ \E t \in DOMAIN tasks : tasks[t].state = "err" /\ tasks[t].spec = "zz"
    /\ Len(rolls) = 1

\* C5: the displayed rows are the history in reverse order, one row per
\* entry (descriptor, outcome as text), the latest entry in row 0.
C5_ProjectionOrder ==
    /\ Len(rolls_store) = Len(rolls)
    /\ \A i \in 1..Len(rolls) :
          rolls_store[i] = << rolls[Len(rolls) + 1 - i].descriptor,
                              ToString(rolls[Len(rolls) + 1 - i].outcome) >>

C5_Witness ==
    /\ last = "FinishRoll"
    /\ Len(rolls) = 2
    /\ rolls[1].outcome = 2 /\ rolls[2].outcome = 3
    /\ rolls_store = << <<"1d2 + 1", "3">>, <<"1d2 + 1", "2">> >>

\* C6: handling Quit ends the event loop, and once it has ended no step
\* changes the model, the widgets or the tasks, or issues a view command.
C6_TerminalState ==
    [][ /\ last' = "Quit" => ~running'
        /\ ~running =>
              /\ ~running'
              /\ cmds' = <<>>
              /\ UNCHANGED <<textentry_content, rolls, inputText,
                             rolls_store, tasks>> ]_vars

C6_Witness ==
    /\ ~running
    /\ \E i \in DOMAIN stream : stream[i].tag = "FinishRoll"
    /\ \E i \in DOMAIN stream : stream[i].tag = "ChangeInput"
    /\ \E t \in DOMAIN tasks : tasks[t].state = "spawned"

\* C7: a ChangeInput step taken while the entry shows textentry_content
\* leaves textentry_content, the history and the entry as they are and issues
\* set_text with that text; and the ChangeInput arm applied to its own result
\* gives that result again.
C7_IdempotentResync ==
    [][ /\ last' = "ChangeInput" /\ inputText = textentry_content =>
              /\ textentry_content' = textentry_content
              /\ rolls' = rolls
              /\ inputText' = inputText
              /\ cmds' = <<SetTextCmd(textentry_content)>>
              /\ stream' = Tail(stream)
        /\ LET once == OnChangeInput(textentry_content, inputText)
           IN  OnChangeInput(once.content, once.input) = once ]_vars

C7_Witness ==
    /\ last = "ChangeInput"
    /\ textentry_content = "zz"
    /\ cmds = <<SetTextCmd("zz")>>
    /\ stream # <<>> /\ Head(stream).tag = "ChangeInput"
    /\ inputText = "zz"

\* C8: a task has exactly one FinishRoll message (pending or handled) once
\* its future resolved Ok and none otherwise, and every FinishRoll message
\* comes from a spawned task.
C8_OneEventPerTask ==
    /\ \A t \in DOMAIN tasks :
          EventsOf(t) = IF tasks[t].state = "ok" THEN 1 ELSE 0
    /\ \A i \in DOMAIN stream :
          stream[i].tag = "FinishRoll" => stream[i].outcome.task \in DOMAIN tasks
    /\ \A i \in DOMAIN rolls : rolls[i].task \in DOMAIN tasks

C8_Witness ==
    /\ Len(tasks) = 2
    /\ tasks[1].state = "ok" /\ tasks[2].state = "ok"
    /\ Len(rolls) = 1
    /\ Len(PendingFinishRolls) = 1

TaskInFlight(t) == t \in DOMAIN tasks /\ tasks[t].state = "spawned"
TaskEnded(t)    == t \in DOMAIN tasks /\ tasks[t].state # "spawned"
TaskOk(t)       == t \in DOMAIN tasks /\ tasks[t].state = "ok"
TaskInHistory(t) == \E i \in DOMAIN rolls : rolls[i].task = t

\* C9 as stated: every spawned task eventually ends, and the outcome of a
\* task that resolved Ok is eventually in the history.
C9_Original ==
    \A t \in 1..MaxTasks :
        TaskInFlight(t) ~> (TaskEnded(t) /\ (TaskOk(t) => TaskInHistory(t)))

\* C9, amended: every spawned task eventually ends, and the outcome of a
\* task that resolved Ok is eventually in the history, unless Quit is
\* handled first and ends the program.
C9_NoTaskAbandoned ==
    \A t \in 1..MaxTasks :
        TaskInFlight(t) ~>
            (~running \/ (TaskEnded(t) /\ (TaskOk(t) => TaskInHistory(t))))

C9_Witness ==
    /\ running
    /\ Len(tasks) = 2
    /\ tasks[1].state = "ok" /\ TaskInHistory(1)
    /\ tasks[2].state = "err"
    /\ textentry_content = "1d2+1"

\* C10: the history, followed by the pending FinishRoll messages, lists the
\* tasks in the order their futures resolved; a FinishRoll step appends the
\* outcome it carries and touches neither the tasks nor the other messages.
C10_CompletionOrder ==
    [][ /\ OutcomeTasks(rolls') \o MessageTasks(PendingFinishRolls') = completed'
        /\ last' = "FinishRoll" =>
              /\ rolls' = Append(rolls, Head(stream).outcome)
              /\ tasks' = tasks
              /\ stream' = Tail(stream) ]_vars

C10_Witness ==
    /\ Len(rolls) = 2
    /\ rolls[1].task = 2
    /\ rolls[2].task = 1

\* the kinds of step that are an event-handling step of Win::update
HandlerSteps == {"ChangeInput", "StartRoll", "FinishRoll", "Quit"}

\* the ChangeInput messages pending in the stream
PendingChangeInputs ==
    Cardinality({i \in DOMAIN stream : stream[i].tag = "ChangeInput"})

\* the most-recent-first projection of a history
Projection(rs) ==
    [i \in 1..Len(rs) |-> << rs[Len(rs) + 1 - i].descriptor,
                             ToString(rs[Len(rs) + 1 - i].outcome) >>]

\* C11: a ChangeInput or StartRoll step issues set_text alone and leaves the
\* rows as they are; a FinishRoll step issues the rebuild of the rows alone
\* and leaves the entry as it is; a Quit step issues no view command.
C11_DirtyRegionsOnly ==
    [][ /\ last' \in {"ChangeInput", "StartRoll"} =>
              /\ cmds' = <<SetTextCmd(textentry_content')>>
              /\ rolls_store' = rolls_store
        /\ last' = "FinishRoll" =>
              /\ cmds' = <<ReplaceRowsCmd(rolls_store')>>
              /\ inputText' = inputText
        /\ last' = "Quit" =>
              /\ cmds' = <<>>
              /\ inputText' = inputText
              /\ rolls_store' = rolls_store ]_vars

C11_Witness ==
    /\ last = "FinishRoll"
    /\ inputText = "zz"
    /\ textentry_content = ""
    /\ Len(rolls_store) = 2

\* C12 as stated: after every event-handling step the entry shows
\* textentry_content and the rows are the projection of the history.
C12_Original ==
    last \in HandlerSteps =>
        /\ inputText = textentry_content
        /\ rolls_store = Projection(rolls)

\* C12, amended: after every event-handling step the rows are the projection
\* of the history, and the entry shows textentry_content unless the step was
\* a FinishRoll step taken while the ChangeInput of a user edit is pending.
C12_ModelViewConsistency ==
    last \in HandlerSteps =>
        /\ rolls_store = Projection(rolls)
        /\ \/ inputText = textentry_content
           \/ last = "FinishRoll" /\ PendingChangeInputs > 0

C12_Witness ==
    /\ last = "FinishRoll"
    /\ inputText = "zz"
    /\ textentry_content = "1d2+1"
    /\ Len(rolls_store) = 1
    /\ PendingChangeInputs = 1

\* C13: textentry_content and rolls change only in an event-handling step
\* that consumes the head of the stream; the step in which a future resolves
\* leaves the model and the widgets alone and at most appends its own
\* FinishRoll message to the stream.
C13_SingleWriter ==
    [][ /\ (textentry_content' # textentry_content \/ rolls' # rolls) =>
              /\ running /\ stream # <<>>
              /\ last' \in {"ChangeInput", "StartRoll", "FinishRoll"}
              /\ last' = Head(stream).tag
        /\ \A t \in DOMAIN tasks :
              Resolves(t) =>
                 /\ UNCHANGED <<textentry_content, rolls, inputText, rolls_store>>
                 /\ \/ stream' = stream
                    \/ /\ Len(stream') = Len(stream) + 1
                       /\ SubSeq(stream', 1, Len(stream)) = stream
                       /\ stream'[Len(stream')].tag = "FinishRoll"
                       /\ stream'[Len(stream')].outcome.task = t ]_vars

C13_Witness ==
    /\ last = "TaskOk"
    /\ rolls = <<>>
    /\ textentry_content = "zz"
    /\ Len(PendingFinishRolls) = 1

\* C14: an event-handling step handles the message at the head of the
\* stream and removes that one message alone, the others keeping their order;
\* every message emitted, a FinishRoll included, joins at the tail.
C14_FifoOneAtATime ==
    [][ IF last' \in HandlerSteps
        THEN /\ stream # <<>>
             /\ last' = Head(stream).tag
             /\ \/ stream' = Tail(stream)
                \/ stream' = Append(Tail(stream), ChangeInput)
        ELSE \/ stream' = stream
             \/ /\ Len(stream') = Len(stream) + 1
                /\ SubSeq(stream', 1, Len(stream)) = stream ]_vars

C14_Witness ==
    /\ last = "ChangeInput"
    /\ Len(stream) = 2
    /\ stream[1].tag = "StartRoll"
    /\ stream[2].tag = "FinishRoll"

\* C15: running changes only in the step that handles Quit: no ChangeInput,
\* StartRoll or FinishRoll step, no gesture and no resolving future, failed
\* or not, ends the event loop.
C15_OnlyQuitTerminates ==
    [][ running' # running =>
            /\ running /\ ~running'
            /\ stream # <<>> /\ Head(stream).tag = "Quit"
            /\ last' = "Quit" ]_vars

C15_Witness ==
    /\ running
    /\ last = "TaskErr"
    /\ finished = 1
    /\ textentry_content = "zz"

\* C16: a ChangeInput step sets textentry_content to the text the entry
\* shows when the step is taken, issues set_text with that text, leaves the
\* entry showing it and so emits no further ChangeInput.
C16_ChangeInputReadsEntry ==
    [][ last' = "ChangeInput" =>
            /\ textentry_content' = inputText
            /\ cmds' = <<SetTextCmd(inputText)>>
            /\ inputText' = inputText
            /\ stream' = Tail(stream) ]_vars

\* two edits were pending together: the first ChangeInput has been handled
\* and has recorded the text of the second edit
C16_Witness ==
    /\ last = "ChangeInput"
    /\ tasks = <<>>
    /\ stream = <<ChangeInput>>
    /\ textentry_content = "1d2+1"
    /\ inputText = "1d2+1"

\* C17: a FinishRoll step leaves textentry_content unchanged; a ChangeInput
\* or StartRoll step leaves the history unchanged; a Quit step leaves both
\* unchanged.
C17_FrameConditions ==
    [][ /\ last' = "FinishRoll" => textentry_content' = textentry_content
        /\ last' \in {"ChangeInput", "StartRoll"} =>
              rolls' = rolls /\ finished' = finished
        /\ last' = "Quit" =>
              textentry_content' = textentry_content /\ rolls' = rolls ]_vars

C17_Witness ==
    /\ last = "FinishRoll"
    /\ textentry_content = "zz"
    /\ inputText = "zz"
    /\ Len(rolls) = 2

\* C18: a StartRoll message at the head of the stream can always be handled,
\* whatever textentry_content holds; the step that handles it adds exactly
\* one task, in flight, and no other step adds or removes a task.
C18_SpawnUnconditional ==
    /\ [](Handling("StartRoll") => ENABLED UpdateStartRoll)
    /\ [][ /\ last' = "StartRoll" =>
                 /\ Len(tasks') = Len(tasks) + 1
                 /\ SubSeq(tasks', 1, Len(tasks)) = tasks
                 /\ tasks'[Len(tasks')].state = "spawned"
           /\ last' # "StartRoll" => Len(tasks') = Len(tasks) ]_vars

C18_Witness ==
    /\ last = "StartRoll"
    /\ Len(tasks) = 2
    /\ tasks[1].spec = "zz" /\ tasks[1].state = "spawned"
    /\ tasks[2].spec = "" /\ tasks[2].state = "spawned"

\* C19: the tasks number the StartRoll steps taken (one more per such step,
\* none otherwise); the history is never longer than that, its entries come
\* from distinct tasks, and each entry is an Ok value of rfyl::roll on the
\* expression of its task, whose future resolved Ok.
C19_OutcomeOrigin ==
    [][ /\ Len(tasks') = Len(tasks) + (IF last' = "StartRoll" THEN 1 ELSE 0)
        /\ Len(rolls') <= Len(tasks')
        /\ \A i \in DOMAIN rolls' :
              /\ rolls'[i].task \in DOMAIN tasks'
              /\ tasks'[rolls'[i].task].state = "ok"
              /\ [formula |-> rolls'[i].descriptor, result |-> rolls'[i].outcome]
                    \in rfyl_roll(tasks'[rolls'[i].task].spec)
        /\ \A i, j \in DOMAIN rolls' :
              i # j => rolls'[i].task # rolls'[j].task ]_vars

C19_Witness ==
    /\ Len(tasks) = 2
    /\ tasks[1].state = "err"
    /\ Len(rolls) = 1
    /\ rolls[1].task = 2

\* the kinds of step that are a user gesture
GestureSteps == {"TypeText", "SubmitGesture", "CloseGesture"}

\* nothing is pending, no future is in flight, the entry shows the model's text
Quiescent ==
    /\ stream = <<>>
    /\ \A t \in DOMAIN tasks : tasks[t].state # "spawned"
    /\ inputText = textentry_content

\* a ChangeInput step emits no message and a StartRoll step emits at most one
\* ChangeInput
NoEventChain ==
    [][ /\ last' = "ChangeInput" => stream' = Tail(stream)
        /\ last' = "StartRoll" =>
              \/ stream' = Tail(stream)
              \/ stream' = Append(Tail(stream), ChangeInput) ]_vars

\* no future is in flight
NoTaskInFlight == \A t \in DOMAIN tasks : tasks[t].state # "spawned"

\* C20 as stated: the view commands feed no chain of events, and once the
\* user gestures stop and the futures in flight have resolved, the system
\* comes to rest with nothing pending, no future in flight and the entry
\* showing textentry_content.
C20_Original ==
    /\ NoEventChain
    /\ (<>[](last \notin GestureSteps) /\ <>[]NoTaskInFlight) => <>[]Quiescent

\* C20, amended: as stated, unless a Quit has been handled: the program has
\* then ended and the messages still pending are never handled.
C20_Quiescence ==
    /\ NoEventChain
    /\ (<>[](last \notin GestureSteps) /\ <>[]NoTaskInFlight)
          => <>[](Quiescent \/ ~running)

C20_Witness ==
    /\ running
    /\ Quiescent
    /\ last = "ChangeInput"
    /\ Len(tasks) = 2
    /\ tasks[1].spec = "1d2+1" /\ tasks[1].state = "ok"
    /\ tasks[2].spec = "zz" /\ tasks[2].state = "err"
    /\ Len(rolls) = 1

====
